---- MODULE Spec2Model ----
(***************************************************************************)
(* A model of usb_mapper.c: the USB hub traversal (EnumerateUSBDevices),   *)
(* the global result store (g_devices, g_deviceCount) and its two readers  *)
(* (GetDeviceInfo, GetDeviceCount).                                        *)
(*                                                                         *)
(* The operating system is the environment.  What SetupDi*, CreateFile and *)
(* DeviceIoControl answer is held in the variable hw; the program only     *)
(* reads it through the calls it makes.  EnumerateUSBDevices is cut into   *)
(* one action per operating-system call, so that the order of the calls,   *)
(* the life of the handles and the interleaving of two callers can be      *)
(* stated.                                                                 *)
(*                                                                         *)
(* Assumptions on the environment: the sizing call of line 127 reports the *)
(* size, malloc (line 130) succeeds, and the hardware does not change      *)
(* while a pass is between its listing and its return.                     *)
(*                                                                         *)
(* Three specifications: Spec (one caller: passes, reads and hardware      *)
(* events), SpecSpeed (passes over one device of every raw speed class)    *)
(* and SpecRace (two callers whose passes interleave).                     *)
(***************************************************************************)
EXTENDS Integers, Sequences, FiniteSets, TLC

\* ------------------------------------------------------------------ bounds
\* Most hubs a listing holds.
MaxHubs == 2
\* Most ports one hub reports (bNumberOfPorts).
MaxPorts == 2
\* Most ports over all hubs of one listing.
MaxTotalPorts == 3
\* Capacity of g_devices.  usb_mapper.c:14 sets 256; the model keeps the
\* capacity below the number of ports a listing can hold, so that the store
\* fills up and overflows.
MAX_DEVICES == 2

\* ------------------------------------------------------- program constants
MAX_PATH_LEN == 512
MAX_DESC_LEN == 256
HUB_DESC_LEN == 256
INVALID_HANDLE_VALUE == -1
\* USB_CONNECTION_STATUS
NoDeviceConnected == 0
DeviceConnected == 1
DeviceFailedEnumeration == 2
\* USB_DEVICE_SPEED
UsbLowSpeed == 0
UsbFullSpeed == 1
UsbHighSpeed == 2
UsbSuperSpeed == 3
\* unsigned short
USHORT_MOD == 65536
\* unsigned char (connInfo.Speed)
UCHAR_MOD == 256

Threads == {1, 2}

Min(a, b) == IF a < b THEN a ELSE b

\* ------------------------------------------------------------------ strings
\* A C string is modelled by the text it was taken from (id) and the number
\* of its characters that are present (len): two strings are equal when they
\* are the same prefix of the same text.
EmptyStr == [id |-> 0, len |-> 0]

\* strncpy(dst, src, n) into a zeroed dst of more than n bytes: the first n
\* characters of src at most.
StrNCpy(src, n) == [id |-> IF Min(src.len, n) = 0 THEN 0 ELSE src.id, len |-> Min(src.len, n)]

\* Number of decimal digits of a port number (%d).
Digits(n) == IF n < 10 THEN 1 ELSE IF n < 100 THEN 2 ELSE 3

\* snprintf(dst, MAX_DESC_LEN, "Hub: %s, Port: %d", hubDesc, port): the hub
\* name, the port, and the characters kept of the 5 + len + 8 + digits.
FormatDesc(hubDesc, p) ==
    [hub |-> hubDesc, port |-> p,
     len |-> Min(MAX_DESC_LEN - 1, 5 + hubDesc.len + 8 + Digits(p))]

EmptyDesc == [hub |-> EmptyStr, port |-> 0, len |-> 0]

\* ------------------------------------------------------------------ records
\* USBDeviceInfo after memset(.., 0, ..).
ZeroInfo ==
    [hubIndex |-> 0, portNumber |-> 0, deviceDesc |-> EmptyDesc,
     devicePath |-> EmptyStr, isHub |-> 0, speed |-> 0,
     vendorId |-> 0, productId |-> 0]

\* USB_NODE_CONNECTION_INFORMATION_EX after ZeroMemory.
ZeroConn ==
    [ConnectionStatus |-> 0, DeviceIsHub |-> 0, Speed |-> 0,
     idVendor |-> 0, idProduct |-> 0]

\* A switch without its default branch: the speed keeps the zero of memset.
MapSpeedNoDefault(raw) ==
    CASE raw = UsbLowSpeed -> 0
      [] raw = UsbFullSpeed -> 1
      [] raw = UsbHighSpeed -> 2
      [] raw = UsbSuperSpeed -> 3
      [] OTHER -> 0

\* The switch on connInfo.Speed.
MapSpeed(raw) ==
    CASE raw = UsbLowSpeed -> 0
      [] raw = UsbFullSpeed -> 1
      [] raw = UsbHighSpeed -> 2
      [] raw = UsbSuperSpeed -> 3
      [] OTHER -> -1

\* ------------------------------------------------------------- environment
\* What one port answers to IOCTL_USB_GET_NODE_CONNECTION_INFORMATION_EX:
\*   "fail"  the request fails (connInfo stays zeroed),
\*   "away"  a status other than DeviceConnected, with a descriptor,
\*   "conn"  DeviceConnected, with a descriptor.
PortKinds == {"fail", "away", "conn"}

\* The status of a port that is not connected, by position: no device, or a
\* device that failed enumeration.
AwayStatus(i, p) ==
    IF (i + p) % 2 = 0 THEN NoDeviceConnected ELSE DeviceFailedEnumeration

\* The descriptor the device at port p of the hub listed at position i
\* reports: different at every position. Speed is a UCHAR: base shifts the
\* speed classes the devices report.
ConnAt(base, i, p, status) ==
    [ConnectionStatus |-> status,
     DeviceIsHub |-> (i + p) % 2,
     Speed |-> (base + ((2 * i + p) % 5)) % UCHAR_MOD,
     idVendor |-> (4096 * (i + 1) + p) % USHORT_MOD,
     idProduct |-> (4096 * (i + 1) + p + 21845) % USHORT_MOD]

AnswerAt(base, i, p, kind) ==
    CASE kind = "fail" -> [ok |-> FALSE, info |-> ZeroConn]
      [] kind = "away" -> [ok |-> TRUE, info |-> ConnAt(base, i, p, AwayStatus(i, p))]
      [] OTHER -> [ok |-> TRUE, info |-> ConnAt(base, i, p, DeviceConnected)]

\* Lengths of the device paths and of the SPDRP_DEVICEDESC texts of the hubs,
\* by listing position (0 = the property cannot be read).
PathLens == <<60, 600, 511, 512>>
DescLens == <<20, 0, 255, 243>>

PathAt(i) == [id |-> 100 + i, len |-> PathLens[(i % Len(PathLens)) + 1]]
DescAt(i) == [id |-> 200 + i, len |-> DescLens[(i % Len(DescLens)) + 1]]

\* A hub of the listing: "nopath" (the detail call fails), "noopen"
\* (CreateFile fails), "nonode" (the node information request fails) or "ok"
\* with the kinds of its ports.
HubModes == {"nopath", "noopen", "nonode", "ok"}

HubShapes ==
    {[mode |-> m, kinds |-> <<>>] : m \in {"nopath", "noopen", "nonode"}}
    \cup {[mode |-> "ok", kinds |-> k] :
            k \in UNION {[1..n -> PortKinds] : n \in 0..MaxPorts}}

MkHub(base, i, shape) ==
    [pathOk |-> shape.mode # "nopath",
     DevicePath |-> PathAt(i),
     openOk |-> shape.mode \notin {"nopath", "noopen"},
     nodeOk |-> shape.mode = "ok",
     bNumberOfPorts |-> Len(shape.kinds),
     conn |-> [p \in 1..Len(shape.kinds) |-> AnswerAt(base, i, p, shape.kinds[p])],
     descOk |-> DescAt(i).len > 0,
     DeviceDesc |-> DescAt(i)]

RECURSIVE TotalPorts(_)
TotalPorts(shapes) ==
    IF shapes = <<>> THEN 0
    ELSE Len(shapes[1].kinds) + TotalPorts(Tail(shapes))

ListingShapes ==
    {s \in UNION {[1..n -> HubShapes] : n \in 0..MaxHubs} :
        TotalPorts(s) <= MaxTotalPorts}

\* The hardware states: the listing cannot be initialized, or a listing of
\* hubs (the hub at listing position i is hubs[i + 1]); speedBase shifts the
\* raw speed classes of the devices and is 0 here.
HwSet ==
    {[listOk |-> FALSE, hubs |-> <<>>, speedBase |-> 0]}
    \cup {[listOk |-> TRUE, hubs |-> s, speedBase |-> 0] : s \in ListingShapes}

\* A hardware state within the bounds (the members of HwSet).
InBounds(h) ==
    /\ Len(h.hubs) <= MaxHubs
    /\ \A k \in 1..Len(h.hubs) : Len(h.hubs[k].kinds) <= MaxPorts
    /\ TotalPorts(h.hubs) <= MaxTotalPorts
    /\ ~h.listOk => h.hubs = <<>>

\* One event of the hardware: the listing breaks or recovers, a hub is
\* plugged in or removed at the end of the listing, a hub changes its mode, a
\* hub gains or loses its last port, a port answers differently.
HwEvents(h) ==
    LET n == Len(h.hubs) IN
    {[h EXCEPT !.listOk = ~h.listOk, !.hubs = <<>>]}
    \cup {[h EXCEPT !.hubs = Append(@, [mode |-> "ok", kinds |-> <<>>])] : x \in {1}}
    \cup {[h EXCEPT !.hubs = SubSeq(@, 1, n - 1)] : x \in {y \in {1} : n > 0}}
    \cup {[h EXCEPT !.hubs[k] = [mode |-> m, kinds |-> <<>>]] : k \in 1..n, m \in HubModes}
    \cup {[h EXCEPT !.hubs[k].kinds = Append(@, "away")] :
            k \in {j \in 1..n : h.hubs[j].mode = "ok"}}
    \cup {[h EXCEPT !.hubs[k].kinds = SubSeq(@, 1, Len(@) - 1)] :
            k \in {j \in 1..n : Len(h.hubs[j].kinds) > 0}}
    \cup UNION {{[h EXCEPT !.hubs[k].kinds[p] = kind] : p \in 1..Len(h.hubs[k].kinds), kind \in PortKinds} :
            k \in 1..n}

\* -------------------------------------------------------------------- state
VARIABLES
    g_devices,      \* static USBDeviceInfo g_devices[MAX_DEVICES]
    g_deviceCount,  \* static int g_deviceCount
    hw,             \* what the operating system answers
    handles,        \* the hub handles that are open (CreateFile .. CloseHandle)
    infoSets,       \* the device information sets that are alive
    threads,        \* the threads that call into the library
    pc,             \* per thread: where it is in EnumerateUSBDevices
    hubIndex,       \* per thread: DWORD hubIndex
    port,           \* per thread: int port
    numPorts,       \* per thread: int numPorts
    hHub,           \* per thread: HANDLE hHub
    deviceInfoSet,  \* per thread: HDEVINFO deviceInfoSet
    devicePath,     \* per thread: deviceInterfaceDetailData->DevicePath
    ret,            \* per thread: what its last EnumerateUSBDevices returned (0 while it runs)
    trace,          \* per thread: the operating-system calls of its pass
    last,           \* the result of the last pass that returned
    prev,           \* the result of the pass before, on the same hardware
    obs             \* the last GetDeviceInfo / GetDeviceCount call

vars ==
    <<g_devices, g_deviceCount, hw, handles, infoSets, threads, pc, hubIndex,
      port, numPorts, hHub, deviceInfoSet, devicePath, ret, trace, last, prev,
      obs>>

locals == <<hubIndex, port, numPorts, hHub, deviceInfoSet, devicePath>>

Slots == 0..(MAX_DEVICES - 1)

ZeroDevices == [i \in Slots |-> ZeroInfo]

NoPass == [valid |-> FALSE, ret |-> 0, count |-> 0, devices |-> ZeroDevices]

\* The caller's USBDeviceInfo before a GetDeviceInfo call.
Untouched == [written |-> FALSE, info |-> ZeroInfo]

NoObs == [op |-> "none", index |-> 0, null |-> FALSE, ret |-> 0, out |-> Untouched]

Event(op, i, p, ok) == [op |-> op, hub |-> i, port |-> p, ok |-> ok]

\* The smallest handle value that is not in use.
Fresh(used) == CHOOSE n \in 1..(Cardinality(used) + 1) : n \notin used /\ \A m \in 1..(n - 1) : m \in used

InitVars ==
    /\ g_devices = ZeroDevices
    /\ g_deviceCount = 0
    /\ handles = {}
    /\ infoSets = {}
    /\ pc = [t \in Threads |-> "idle"]
    /\ hubIndex = [t \in Threads |-> 0]
    /\ port = [t \in Threads |-> 0]
    /\ numPorts = [t \in Threads |-> 0]
    /\ hHub = [t \in Threads |-> INVALID_HANDLE_VALUE]
    /\ deviceInfoSet = [t \in Threads |-> INVALID_HANDLE_VALUE]
    /\ devicePath = [t \in Threads |-> EmptyStr]
    /\ ret = [t \in Threads |-> 0]
    /\ trace = [t \in Threads |-> <<>>]
    /\ last = NoPass
    /\ prev = NoPass
    /\ obs = NoObs

\* One caller thread: the serialized execution the library requires.
Init == InitVars /\ hw \in HwSet /\ threads = {1}

\* The hub at listing position i, as the operating system presents it.
Hub(i) == MkHub(hw.speedBase, i, hw.hubs[i + 1])

\* ------------------------------------------------------------ the program
\* GetDeviceProperty(.., SPDRP_DEVICEDESC, hubDesc, sizeof(hubDesc)) on the
\* zeroed hubDesc: the text when it can be read and fits, else nothing.
GetDeviceProperty(hub, bufferSize) ==
    IF hub.descOk /\ hub.DeviceDesc.len + 1 <= bufferSize
    THEN [ok |-> TRUE, buffer |-> hub.DeviceDesc]
    ELSE [ok |-> FALSE, buffer |-> EmptyStr]

\* DeviceInfo with the vendor and product identifiers swapped.
DeviceInfoSwappedIds(i, p, info, hub, path) ==
    [hubIndex |-> i,
     portNumber |-> p,
     isHub |-> IF info.DeviceIsHub # 0 THEN 1 ELSE 0,
     vendorId |-> info.idProduct % USHORT_MOD,
     productId |-> info.idVendor % USHORT_MOD,
     speed |-> MapSpeed(info.Speed),
     deviceDesc |-> FormatDesc(GetDeviceProperty(hub, HUB_DESC_LEN).buffer, p),
     devicePath |-> StrNCpy(path, MAX_PATH_LEN - 1)]

\* DeviceInfo numbering the hubs from 1.
DeviceInfoOneBasedHub(i, p, info, hub, path) ==
    [hubIndex |-> i + 1,
     portNumber |-> p,
     isHub |-> IF info.DeviceIsHub # 0 THEN 1 ELSE 0,
     vendorId |-> info.idVendor % USHORT_MOD,
     productId |-> info.idProduct % USHORT_MOD,
     speed |-> MapSpeed(info.Speed),
     deviceDesc |-> FormatDesc(GetDeviceProperty(hub, HUB_DESC_LEN).buffer, p),
     devicePath |-> StrNCpy(path, MAX_PATH_LEN - 1)]

\* DeviceInfo recording the port 0-based.
DeviceInfoZeroBasedPort(i, p, info, hub, path) ==
    [hubIndex |-> i,
     portNumber |-> p - 1,
     isHub |-> IF info.DeviceIsHub # 0 THEN 1 ELSE 0,
     vendorId |-> info.idVendor % USHORT_MOD,
     productId |-> info.idProduct % USHORT_MOD,
     speed |-> MapSpeed(info.Speed),
     deviceDesc |-> FormatDesc(GetDeviceProperty(hub, HUB_DESC_LEN).buffer, p),
     devicePath |-> StrNCpy(path, MAX_PATH_LEN - 1)]

\* The fields written to *dev for port p of the hub at hubIndex i.
DeviceInfo(i, p, info, hub, path) ==
    [hubIndex |-> i,
     portNumber |-> p,
     isHub |-> IF info.DeviceIsHub # 0 THEN 1 ELSE 0,
     vendorId |-> info.idVendor % USHORT_MOD,
     productId |-> info.idProduct % USHORT_MOD,
     speed |-> MapSpeed(info.Speed),
     deviceDesc |-> FormatDesc(GetDeviceProperty(hub, HUB_DESC_LEN).buffer, p),
     devicePath |-> StrNCpy(path, MAX_PATH_LEN - 1)]

\* StoreAppend with the capacity test off by one.
StoreAppendOffByOne(devices, count, info) ==
    IF count <= MAX_DEVICES
    THEN [devices |-> [j \in Slots |-> IF j = count THEN info ELSE devices[j]],
          count |-> count + 1]
    ELSE [devices |-> devices, count |-> count]

\* StoreAppend that keeps the newest device in the last slot of a full array.
StoreAppendOverwriteLast(devices, count, info) ==
    IF count < MAX_DEVICES
    THEN [devices |-> [devices EXCEPT ![count] = info], count |-> count + 1]
    ELSE [devices |-> [devices EXCEPT ![MAX_DEVICES - 1] = info], count |-> count]

\* if (g_deviceCount < MAX_DEVICES) { g_devices[g_deviceCount] = ..; g_deviceCount++; }
StoreAppend(devices, count, info) ==
    IF count < MAX_DEVICES
    THEN [devices |-> [devices EXCEPT ![count] = info], count |-> count + 1]
    ELSE [devices |-> devices, count |-> count]

\* IsConnected taking every status but NoDeviceConnected.
IsConnectedNotNone(info) == info.ConnectionStatus # NoDeviceConnected

\* if (connInfo.ConnectionStatus == DeviceConnected)
IsConnected(info) == info.ConnectionStatus = DeviceConnected

\* GetPortConnectorProperties(hHub, port, &connInfo) on the hub at position i.
PortAnswer(h, i, p) ==
    IF h \in handles /\ p \in DOMAIN Hub(i).conn
    THEN Hub(i).conn[p]
    ELSE [ok |-> FALSE, info |-> ZeroConn]

Snapshot(r) == [valid |-> TRUE, ret |-> r, count |-> g_deviceCount, devices |-> g_devices]

Log(t, e) == trace' = [trace EXCEPT ![t] = Append(@, e)]

Goto(t, where) == pc' = [pc EXCEPT ![t] = where]

\* hubIndex++ after free(deviceInterfaceDetailData)
NextHub(t) ==
    /\ hubIndex' = [hubIndex EXCEPT ![t] = @ + 1]
    /\ devicePath' = [devicePath EXCEPT ![t] = EmptyStr]
    /\ Goto(t, "enum")

\* What a returning call leaves: its locals are gone.
ClearLocals(t) ==
    /\ hubIndex' = [hubIndex EXCEPT ![t] = 0]
    /\ port' = [port EXCEPT ![t] = 0]
    /\ numPorts' = [numPorts EXCEPT ![t] = 0]
    /\ hHub' = [hHub EXCEPT ![t] = INVALID_HANDLE_VALUE]
    /\ deviceInfoSet' = [deviceInfoSet EXCEPT ![t] = INVALID_HANDLE_VALUE]
    /\ devicePath' = [devicePath EXCEPT ![t] = EmptyStr]

\* ResetStore that clears the array and leaves the count.
ResetStoreKeepCount ==
    /\ g_deviceCount' = g_deviceCount
    /\ g_devices' = ZeroDevices

\* ResetStore without the memset: the records of the pass before stay.
ResetStoreCountOnly ==
    /\ g_deviceCount' = 0
    /\ g_devices' = g_devices

\* g_deviceCount = 0; memset(g_devices, 0, sizeof(g_devices));
ResetStore ==
    /\ g_deviceCount' = 0
    /\ g_devices' = ZeroDevices

\* EnumerateUSBDevices under a lock held from the reset to the return.
ResetLocked(t) ==
    /\ t \in threads
    /\ pc[t] = "idle"
    /\ \A u \in Threads : pc[u] = "idle"
    /\ ResetStore
    /\ hubIndex' = [hubIndex EXCEPT ![t] = 0]
    /\ trace' = [trace EXCEPT ![t] = <<>>]
    /\ ret' = [ret EXCEPT ![t] = 0]
    /\ prev' = NoPass
    /\ obs' = NoObs
    /\ Goto(t, "list")
    /\ UNCHANGED <<hw, handles, infoSets, threads, port, numPorts, hHub,
                   deviceInfoSet, devicePath, last>>

\* EnumerateUSBDevices is entered: hubIndex = 0 and the global state is reset.
\* Nothing is acquired first, so a thread enters whatever the others do.
Reset(t) ==
    /\ t \in threads
    /\ pc[t] = "idle"
    /\ ResetStore
    /\ hubIndex' = [hubIndex EXCEPT ![t] = 0]
    /\ trace' = [trace EXCEPT ![t] = <<>>]
    /\ ret' = [ret EXCEPT ![t] = 0]
    /\ prev' = NoPass
    /\ obs' = NoObs
    /\ Goto(t, "list")
    /\ UNCHANGED <<hw, handles, infoSets, threads, port, numPorts, hHub,
                   deviceInfoSet, devicePath, last>>

\* GetClassDevs without the test for INVALID_HANDLE_VALUE.
GetClassDevsUnchecked(t) ==
    /\ pc[t] = "list"
    /\ trace' = [trace EXCEPT ![t] = Append(@, [op |-> "list", hub |-> -1, port |-> 0, ok |-> hw.listOk])]
    /\ deviceInfoSet' = [deviceInfoSet EXCEPT ![t] =
                            IF hw.listOk THEN Fresh(infoSets) ELSE INVALID_HANDLE_VALUE]
    /\ infoSets' = IF hw.listOk THEN infoSets \cup {Fresh(infoSets)} ELSE infoSets
    /\ pc' = [pc EXCEPT ![t] = "enum"]
    /\ UNCHANGED <<g_devices, g_deviceCount, hw, handles, threads, hubIndex,
                   port, numPorts, hHub, devicePath, ret, last, prev, obs>>

\* SetupDiGetClassDevs, and the return of -1 when it fails.
GetClassDevs(t) ==
    /\ pc[t] = "list"
    /\ Log(t, Event("list", -1, 0, hw.listOk))
    /\ IF hw.listOk
       THEN /\ deviceInfoSet' = [deviceInfoSet EXCEPT ![t] = Fresh(infoSets)]
            /\ infoSets' = infoSets \cup {Fresh(infoSets)}
            /\ Goto(t, "enum")
            /\ UNCHANGED <<hubIndex, port, numPorts, hHub, devicePath, ret, last, prev>>
       ELSE /\ ret' = [ret EXCEPT ![t] = -1]
            /\ last' = Snapshot(-1)
            /\ prev' = last
            /\ ClearLocals(t)
            /\ Goto(t, "idle")
            /\ UNCHANGED infoSets
    /\ UNCHANGED <<g_devices, g_deviceCount, hw, handles, threads, obs>>

\* while (SetupDiEnumDeviceInterfaces(.., hubIndex, ..))
EnumDeviceInterfaces(t) ==
    /\ pc[t] = "enum"
    /\ IF deviceInfoSet[t] \in infoSets /\ hubIndex[t] < Len(hw.hubs)
       THEN /\ Log(t, Event("enum", hubIndex[t], 0, TRUE))
            /\ Goto(t, "detail")
       ELSE /\ Log(t, Event("enum", hubIndex[t], 0, FALSE))
            /\ Goto(t, "destroy")
    /\ UNCHANGED <<g_devices, g_deviceCount, hw, handles, infoSets, threads,
                   locals, ret, last, prev, obs>>

\* SetupDiGetDeviceInterfaceDetailA: the device path of the hub, or the skip.
GetInterfaceDetail(t) ==
    /\ pc[t] = "detail"
    /\ LET hub == Hub(hubIndex[t]) IN
       /\ Log(t, Event("detail", hubIndex[t], 0, hub.pathOk))
       /\ IF hub.pathOk
          THEN /\ devicePath' = [devicePath EXCEPT ![t] = hub.DevicePath]
               /\ Goto(t, "open")
               /\ UNCHANGED hubIndex
          ELSE NextHub(t)
    /\ UNCHANGED <<g_devices, g_deviceCount, hw, handles, infoSets, threads,
                   port, numPorts, hHub, deviceInfoSet, ret, last, prev, obs>>

\* OpenDeviceHandle (CreateFileA), or the skip.
OpenDeviceHandle(t) ==
    /\ pc[t] = "open"
    /\ LET hub == Hub(hubIndex[t]) IN
       /\ Log(t, Event("open", hubIndex[t], 0, hub.openOk))
       /\ IF hub.openOk
          THEN /\ hHub' = [hHub EXCEPT ![t] = Fresh(handles)]
               /\ handles' = handles \cup {Fresh(handles)}
               /\ Goto(t, "node")
               /\ UNCHANGED <<hubIndex, devicePath>>
          ELSE /\ hHub' = [hHub EXCEPT ![t] = INVALID_HANDLE_VALUE]
               /\ NextHub(t)
               /\ UNCHANGED handles
    /\ UNCHANGED <<g_devices, g_deviceCount, hw, infoSets, threads, port,
                   numPorts, deviceInfoSet, ret, last, prev, obs>>

\* GetHubNodeInfo that skips to the next hub, past CloseHandle, on failure.
GetHubNodeInfoLeak(t) ==
    /\ pc[t] = "node"
    /\ LET hub == Hub(hubIndex[t])
           ok == hHub[t] \in handles /\ hub.nodeOk
       IN
       /\ trace' = [trace EXCEPT ![t] = Append(@, [op |-> "node", hub |-> hubIndex[t], port |-> 0, ok |-> ok])]
       /\ IF ok
          THEN /\ numPorts' = [numPorts EXCEPT ![t] = hub.bNumberOfPorts]
               /\ port' = [port EXCEPT ![t] = 1]
               /\ pc' = [pc EXCEPT ![t] = "port"]
               /\ UNCHANGED <<hubIndex, devicePath>>
          ELSE /\ hubIndex' = [hubIndex EXCEPT ![t] = @ + 1]
               /\ devicePath' = [devicePath EXCEPT ![t] = EmptyStr]
               /\ pc' = [pc EXCEPT ![t] = "enum"]
               /\ UNCHANGED <<numPorts, port>>
    /\ UNCHANGED <<g_devices, g_deviceCount, hw, handles, infoSets, threads,
                   hHub, deviceInfoSet, ret, last, prev, obs>>

\* GetHubNodeInfo: the port count and port = 1, or straight to CloseHandle.
GetHubNodeInfo(t) ==
    /\ pc[t] = "node"
    /\ LET hub == Hub(hubIndex[t])
           ok == hHub[t] \in handles /\ hub.nodeOk
       IN
       /\ Log(t, Event("node", hubIndex[t], 0, ok))
       /\ IF ok
          THEN /\ numPorts' = [numPorts EXCEPT ![t] = hub.bNumberOfPorts]
               /\ port' = [port EXCEPT ![t] = 1]
               /\ Goto(t, "port")
          ELSE /\ Goto(t, "close")
               /\ UNCHANGED <<numPorts, port>>
    /\ UNCHANGED <<g_devices, g_deviceCount, hw, handles, infoSets, threads,
                   hubIndex, hHub, deviceInfoSet, devicePath, ret, last, prev, obs>>

\* PortQuery that drops a device whose hub description cannot be read.
PortQuerySkipUndescribed(t) ==
    /\ pc[t] = "port"
    /\ port[t] <= numPorts[t]
    /\ LET i == hubIndex[t]
           p == port[t]
           ans == PortAnswer(hHub[t], i, p)
           new == IF /\ ans.ok
                     /\ IsConnected(ans.info)
                     /\ GetDeviceProperty(Hub(i), HUB_DESC_LEN).ok
                  THEN StoreAppend(g_devices, g_deviceCount,
                                   DeviceInfo(i, p, ans.info, Hub(i), devicePath[t]))
                  ELSE [devices |-> g_devices, count |-> g_deviceCount]
       IN
       /\ Log(t, Event("port", i, p, ans.ok))
       /\ g_devices' = new.devices
       /\ g_deviceCount' = new.count
    /\ port' = [port EXCEPT ![t] = @ + 1]
    /\ UNCHANGED <<hw, handles, infoSets, threads, pc, hubIndex, numPorts, hHub,
                   deviceInfoSet, devicePath, ret, last, prev, obs>>

\* PortQuery leaving the loop at the first port that yields no record.
PortQueryBreak(t) ==
    /\ pc[t] = "port"
    /\ port[t] <= numPorts[t]
    /\ LET i == hubIndex[t]
           p == port[t]
           ans == PortAnswer(hHub[t], i, p)
           hit == ans.ok /\ IsConnected(ans.info)
           new == IF hit
                  THEN StoreAppend(g_devices, g_deviceCount,
                                   DeviceInfo(i, p, ans.info, Hub(i), devicePath[t]))
                  ELSE [devices |-> g_devices, count |-> g_deviceCount]
       IN
       /\ trace' = [trace EXCEPT ![t] = Append(@, [op |-> "port", hub |-> i, port |-> p, ok |-> ans.ok])]
       /\ g_devices' = new.devices
       /\ g_deviceCount' = new.count
       /\ port' = [port EXCEPT ![t] = IF hit THEN @ + 1 ELSE numPorts[t] + 1]
    /\ UNCHANGED <<hw, handles, infoSets, threads, pc, hubIndex, numPorts, hHub,
                   deviceInfoSet, devicePath, ret, last, prev, obs>>

\* One turn of the port loop: the connection request, the record, port++.
PortQuery(t) ==
    /\ pc[t] = "port"
    /\ port[t] <= numPorts[t]
    /\ LET i == hubIndex[t]
           p == port[t]
           ans == PortAnswer(hHub[t], i, p)
           new == IF ans.ok /\ IsConnected(ans.info)
                  THEN StoreAppend(g_devices, g_deviceCount,
                                   DeviceInfo(i, p, ans.info, Hub(i), devicePath[t]))
                  ELSE [devices |-> g_devices, count |-> g_deviceCount]
       IN
       /\ Log(t, Event("port", i, p, ans.ok))
       /\ g_devices' = new.devices
       /\ g_deviceCount' = new.count
    /\ port' = [port EXCEPT ![t] = @ + 1]
    /\ UNCHANGED <<hw, handles, infoSets, threads, pc, hubIndex, numPorts, hHub,
                   deviceInfoSet, devicePath, ret, last, prev, obs>>

\* port <= numPorts is false: the loop is left.
PortsDone(t) ==
    /\ pc[t] = "port"
    /\ port[t] > numPorts[t]
    /\ Goto(t, "close")
    /\ UNCHANGED <<g_devices, g_deviceCount, hw, handles, infoSets, threads,
                   locals, ret, trace, last, prev, obs>>

\* CloseHandle(hHub), then free and hubIndex++.
CloseHub(t) ==
    /\ pc[t] = "close"
    /\ Log(t, Event("close", hubIndex[t], 0, hHub[t] \in handles))
    /\ handles' = handles \ {hHub[t]}
    /\ hHub' = [hHub EXCEPT ![t] = INVALID_HANDLE_VALUE]
    /\ port' = [port EXCEPT ![t] = 0]
    /\ numPorts' = [numPorts EXCEPT ![t] = 0]
    /\ NextHub(t)
    /\ UNCHANGED <<g_devices, g_deviceCount, hw, infoSets, threads,
                   deviceInfoSet, ret, last, prev, obs>>

\* The return without SetupDiDestroyDeviceInfoList.
DestroyInfoListSkipped(t) ==
    /\ pc[t] = "destroy"
    /\ Goto(t, "return")
    /\ UNCHANGED <<g_devices, g_deviceCount, hw, handles, infoSets, threads,
                   locals, ret, trace, last, prev, obs>>

\* SetupDiDestroyDeviceInfoList(deviceInfoSet)
DestroyInfoList(t) ==
    /\ pc[t] = "destroy"
    /\ Log(t, Event("destroy", -1, 0, deviceInfoSet[t] \in infoSets))
    /\ infoSets' = infoSets \ {deviceInfoSet[t]}
    /\ Goto(t, "return")
    /\ UNCHANGED <<g_devices, g_deviceCount, hw, handles, threads, locals, ret,
                   last, prev, obs>>

\* return g_deviceCount;
Return(t) ==
    /\ pc[t] = "return"
    /\ ret' = [ret EXCEPT ![t] = g_deviceCount]
    /\ last' = Snapshot(g_deviceCount)
    /\ prev' = last
    /\ ClearLocals(t)
    /\ Goto(t, "idle")
    /\ UNCHANGED <<g_devices, g_deviceCount, hw, handles, infoSets, threads,
                   trace, obs>>

\* IndexOk with the upper test off by one.
IndexOkOffByOne(index) == ~(index < 0 \/ index > g_deviceCount)

\* The index GetDeviceInfo accepts.
IndexOk(index) == ~(index < 0 \/ index >= g_deviceCount)

\* int GetDeviceInfo(int index, USBDeviceInfo* outInfo): its return value and
\* the caller's record afterwards.
DeviceInfoResult(index, null) ==
    IF ~IndexOk(index) \/ null
    THEN [ret |-> 0, out |-> Untouched]
    ELSE [ret |-> 1, out |-> [written |-> TRUE, info |-> g_devices[index]]]

Indexes == (0 - 1)..(MAX_DEVICES + 1)

\* GetDeviceInfo that moves the record out: the slot is zeroed after the copy.
GetDeviceInfoTake(t, index, null) ==
    /\ t \in threads
    /\ obs = NoObs
    /\ \A u \in Threads : pc[u] = "idle"
    /\ obs' = [op |-> "info", index |-> index, null |-> null,
               ret |-> DeviceInfoResult(index, null).ret,
               out |-> DeviceInfoResult(index, null).out]
    /\ g_devices' = IF DeviceInfoResult(index, null).ret = 1
                    THEN [g_devices EXCEPT ![index] = ZeroInfo]
                    ELSE g_devices
    /\ UNCHANGED <<g_deviceCount, hw, handles, infoSets, threads, pc,
                   locals, ret, trace, last, prev>>

\* memcpy(outInfo, &g_devices[index], sizeof(USBDeviceInfo)) when the index
\* is accepted; the store is only read.
GetDeviceInfo(t, index, null) ==
    /\ t \in threads
    /\ obs = NoObs
    /\ \A u \in Threads : pc[u] = "idle"
    /\ obs' = [op |-> "info", index |-> index, null |-> null,
               ret |-> DeviceInfoResult(index, null).ret,
               out |-> DeviceInfoResult(index, null).out]
    /\ UNCHANGED <<g_devices, g_deviceCount, hw, handles, infoSets, threads, pc,
                   locals, ret, trace, last, prev>>

\* int GetDeviceCount()
GetDeviceCount(t) ==
    /\ t \in threads
    /\ obs = NoObs
    /\ \A u \in Threads : pc[u] = "idle"
    /\ obs' = [op |-> "count", index |-> 0, null |-> FALSE,
               ret |-> g_deviceCount, out |-> Untouched]
    /\ UNCHANGED <<g_devices, g_deviceCount, hw, handles, infoSets, threads, pc,
                   locals, ret, trace, last, prev>>

\* The caller has taken the result of its read and may read again.
ReadDone(t) ==
    /\ t \in threads
    /\ obs # NoObs
    /\ obs' = NoObs
    /\ UNCHANGED <<g_devices, g_deviceCount, hw, handles, infoSets, threads, pc,
                   locals, ret, trace, last, prev>>

\* The hardware changes.  The program sees the hardware only through the
\* calls of a pass, so a change is placed where the next pass takes its
\* listing; after it the passes before say nothing about the next one.
HwChange ==
    /\ \E t \in threads : pc[t] = "list"
    /\ \A t \in Threads : pc[t] \in {"idle", "list"}
    /\ \E h \in HwEvents(hw) :
        /\ InBounds(h)
        /\ h # hw
        /\ hw' = h
    /\ last' = NoPass
    /\ UNCHANGED <<g_devices, g_deviceCount, handles, infoSets, threads, pc,
                   locals, ret, trace, prev, obs>>

Next ==
    \/ \E t \in Threads : Reset(t)
    \/ \E t \in Threads : GetClassDevs(t)
    \/ \E t \in Threads : EnumDeviceInterfaces(t)
    \/ \E t \in Threads : GetInterfaceDetail(t)
    \/ \E t \in Threads : OpenDeviceHandle(t)
    \/ \E t \in Threads : GetHubNodeInfo(t)
    \/ \E t \in Threads : PortQuery(t)
    \/ \E t \in Threads : PortsDone(t)
    \/ \E t \in Threads : CloseHub(t)
    \/ \E t \in Threads : DestroyInfoList(t)
    \/ \E t \in Threads : Return(t)
    \/ \E t \in Threads, index \in Indexes, null \in BOOLEAN : GetDeviceInfo(t, index, null)
    \/ \E t \in Threads : GetDeviceCount(t)
    \/ \E t \in Threads : ReadDone(t)
    \/ HwChange

Spec == Init /\ [][Next]_vars

\* The steps of EnumerateUSBDevices alone: no reads, no hardware events.
Pass ==
    \/ \E t \in Threads : Reset(t)
    \/ \E t \in Threads : GetClassDevs(t)
    \/ \E t \in Threads : EnumDeviceInterfaces(t)
    \/ \E t \in Threads : GetInterfaceDetail(t)
    \/ \E t \in Threads : OpenDeviceHandle(t)
    \/ \E t \in Threads : GetHubNodeInfo(t)
    \/ \E t \in Threads : PortQuery(t)
    \/ \E t \in Threads : PortsDone(t)
    \/ \E t \in Threads : CloseHub(t)
    \/ \E t \in Threads : DestroyInfoList(t)
    \/ \E t \in Threads : Return(t)

\* One hub with one connected device, of any raw speed class a UCHAR holds.
SpeedHw ==
    {[listOk |-> TRUE, hubs |-> <<[mode |-> "ok", kinds |-> <<"conn">>]>>,
      speedBase |-> b] : b \in 0..(UCHAR_MOD - 1)}

InitSpeed == InitVars /\ hw \in SpeedHw /\ threads = {1}

\* Passes of one thread over a device of every raw speed class.
SpecSpeed == InitSpeed /\ [][Pass]_vars

\* The listings of at most one hub.
RaceHw == {h \in HwSet : Len(h.hubs) <= 1}

InitRace == InitVars /\ hw \in RaceHw /\ threads = Threads

\* Two threads call EnumerateUSBDevices with no serialization; the steps of
\* the two passes interleave call by call (a port's test, record write and
\* count increment stay one step, so the interleavings inside lines 158-186
\* are left out).
SpecRace == InitRace /\ [][Pass]_vars

\* ------------------------------------------------- what the hardware holds
\* The positions (1-based) of the listed hubs.
Listed == 1..Len(hw.hubs)

\* The hub at position k resolves, opens and reports its ports.
Healthy(k) == hw.hubs[k].mode = "ok"

\* The ports of the hub at position k that a pass has to query, in order.
PortsOf(k) ==
    IF Healthy(k)
    THEN [p \in 1..Len(hw.hubs[k].kinds) |-> [hub |-> k - 1, port |-> p]]
    ELSE <<>>

RECURSIVE QueriesFrom(_)
QueriesFrom(k) == IF k > Len(hw.hubs) THEN <<>> ELSE PortsOf(k) \o QueriesFrom(k + 1)

\* Every port of every healthy hub, hubs in listing order, ports ascending.
AllPorts == QueriesFrom(1)

IsConn(q) == hw.hubs[q.hub + 1].kinds[q.port] = "conn"

\* The ports that answer DeviceConnected, in traversal order.
ConnectedPorts == SelectSeq(AllPorts, IsConn)

\* Thread t has returned from a pass (and has not entered the next one).
Returned(t) == t \in threads /\ pc[t] = "idle" /\ trace[t] # <<>>

\* ... from a pass whose listing was initialized.
Completed(t) == Returned(t) /\ trace[t][1].ok

\* ... from a pass whose listing could not be initialized.
Aborted(t) == Returned(t) /\ ~trace[t][1].ok

IsPortEvent(e) == e.op = "port"
IsDetailEvent(e) == e.op = "detail"

\* The (hub, port) pairs thread t queried in its pass, in the order of the calls.
Queried(t) ==
    LET es == SelectSeq(trace[t], IsPortEvent)
    IN [j \in 1..Len(es) |-> [hub |-> es[j].hub, port |-> es[j].port]]

\* The hub indexes thread t resolved in its pass, in the order of the calls.
Visited(t) ==
    LET es == SelectSeq(trace[t], IsDetailEvent)
    IN [j \in 1..Len(es) |-> es[j].hub]

\* The records of the store.
Stored == 0..(g_deviceCount - 1)

\* ------------------------------------------------------------------ claims

\* C1: when SetupDiGetClassDevs fails, the pass returns -1 and its only
\* operating-system call is the listing (no hub is resolved, opened or
\* queried); and a pass returns a negative value only in that case.
C1_FatalListing ==
    \A t \in threads :
        Returned(t) =>
            /\ ~trace[t][1].ok => (ret[t] = -1 /\ Len(trace[t]) = 1 /\ handles = {})
            /\ ret[t] < 0 => ~trace[t][1].ok
            /\ trace[t][1].op = "list" /\ trace[t][1].ok = hw.listOk

C1_Witness == \E t \in threads : Aborted(t) /\ ret[t] = -1

\* C2: a pass whose listing was initialized resolves every listed hub once,
\* in listing order, queries every port 1..N of every hub that opened and
\* reported N ports exactly once, in ascending order, whatever the other
\* hubs and ports answered, and returns a count >= 0.
C2_NoAbort ==
    \A t \in threads :
        Completed(t) =>
            /\ Visited(t) = [j \in 1..Len(hw.hubs) |-> j - 1]
            /\ Queried(t) = AllPorts
            /\ ret[t] >= 0

C2_Witness ==
    \E t \in threads :
        /\ Completed(t)
        /\ Len(hw.hubs) = 2
        /\ ~Healthy(1)
        /\ Len(AllPorts) = 2
        /\ hw.hubs[2].kinds[1] = "fail"

\* C3: after a pass every record of the store is a port of a listed hub that
\* resolved, opened and reported its ports, and that port answered
\* DeviceConnected.
C3_OnlyConnected ==
    \A t \in threads :
        Returned(t) =>
            \A i \in Stored :
                LET r == g_devices[i] IN
                /\ r.hubIndex + 1 \in Listed
                /\ Healthy(r.hubIndex + 1)
                /\ r.portNumber \in 1..Len(hw.hubs[r.hubIndex + 1].kinds)
                /\ hw.hubs[r.hubIndex + 1].kinds[r.portNumber] = "conn"

C3_Witness ==
    \E t \in threads :
        /\ Completed(t)
        /\ g_deviceCount = 1
        /\ Len(AllPorts) = 3
        /\ \E q \in {AllPorts[j] : j \in 1..3} : hw.hubs[q.hub + 1].kinds[q.port] = "away"
        /\ \E q \in {AllPorts[j] : j \in 1..3} : hw.hubs[q.hub + 1].kinds[q.port] = "fail"

\* C4: every record's portNumber is in 1..(port count of the hub at its
\* hubIndex) and its hubIndex is in 0..(number of listed hubs - 1).
C4_Ranges ==
    \A i \in Stored :
        /\ g_devices[i].hubIndex \in 0..(Len(hw.hubs) - 1)
        /\ g_devices[i].portNumber \in 1..Len(hw.hubs[g_devices[i].hubIndex + 1].kinds)

C4_Witness ==
    \E t \in threads :
        /\ Completed(t)
        /\ g_deviceCount = MAX_DEVICES
        /\ g_devices[MAX_DEVICES - 1].hubIndex = Len(hw.hubs) - 1
        /\ g_devices[MAX_DEVICES - 1].portNumber = MaxPorts

\* C5: 0 <= g_deviceCount <= MAX_DEVICES in every state, and after a pass
\* whose listing was initialized the returned value and GetDeviceCount() are
\* the number of connected ports of the pass, capped at MAX_DEVICES.
C5_Count ==
    /\ 0 <= g_deviceCount /\ g_deviceCount <= MAX_DEVICES
    /\ \A t \in threads :
          Completed(t) =>
              /\ ret[t] = Min(MAX_DEVICES, Len(ConnectedPorts))
              /\ g_deviceCount = ret[t]
              /\ obs.op = "count" => obs.ret = Min(MAX_DEVICES, Len(ConnectedPorts))

C5_Witness ==
    \E t \in threads :
        /\ Completed(t)
        /\ Len(ConnectedPorts) > MAX_DEVICES
        /\ obs.op = "count"

\* The places of the trace of t where op happens at hub i.
At(t, op, i) == {j \in 1..Len(trace[t]) : trace[t][j].op = op /\ trace[t][j].hub = i}

\* C6: a hub handle that was opened is closed exactly once, after the node
\* and port requests of its hub (nothing else lies between the open and the
\* close) and so before the next hub is resolved; a hub whose open failed or
\* that was not opened is never closed; at most one hub handle is open at any
\* time and none once the pass has returned.
C6_Handles ==
    /\ Cardinality(handles) <= 1
    /\ \A t \in threads :
          /\ pc[t] \in {"idle", "list", "enum", "detail", "open", "destroy", "return"}
                => handles = {}
          /\ \A j \in 1..Len(trace[t]) :
                trace[t][j].op = "close" =>
                    /\ trace[t][j].ok
                    /\ \E o \in At(t, "open", trace[t][j].hub) :
                          /\ o < j
                          /\ trace[t][o].ok
                          /\ \A m \in (o + 1)..(j - 1) :
                                /\ trace[t][m].op \in {"node", "port"}
                                /\ trace[t][m].hub = trace[t][j].hub
          /\ Returned(t) =>
                \A j \in 1..Len(trace[t]) :
                    trace[t][j].op = "open" =>
                        /\ Cardinality(At(t, "open", trace[t][j].hub)) = 1
                        /\ Cardinality(At(t, "close", trace[t][j].hub))
                               = IF trace[t][j].ok THEN 1 ELSE 0
                        /\ \A m \in At(t, "port", trace[t][j].hub) \cup At(t, "node", trace[t][j].hub) :
                              /\ j < m
                              /\ \A c \in At(t, "close", trace[t][j].hub) : m < c

C6_Witness ==
    \E t \in threads :
        /\ Completed(t)
        /\ Len(hw.hubs) = 2
        /\ hw.hubs[1].mode = "nonode"
        /\ hw.hubs[2].mode = "ok"
        /\ g_deviceCount = MAX_DEVICES
        /\ Cardinality(At(t, "close", 0)) = 1
        /\ Cardinality(At(t, "close", 1)) = 1

\* C7: a record's hubIndex is the listing position of the hub it came
\* through: the record carries the path of the hub listed at that position
\* and the descriptor that hub reported for the port; a listed hub that did
\* not resolve, open or report its ports keeps its position and has no
\* record, so the hubs after it are not renumbered.
C7_ListingPosition ==
    \A t \in threads :
        Returned(t) =>
            /\ \A i \in Stored :
                  LET r == g_devices[i] IN
                  /\ r.hubIndex + 1 \in Listed
                  /\ r.devicePath.id = PathAt(r.hubIndex).id
                  /\ r.vendorId = ConnAt(hw.speedBase, r.hubIndex, r.portNumber, DeviceConnected).idVendor
            /\ \A k \in Listed :
                  ~Healthy(k) => \A i \in Stored : g_devices[i].hubIndex # k - 1

C7_Witness ==
    \E t \in threads :
        /\ Completed(t)
        /\ Len(hw.hubs) = 2
        /\ hw.hubs[1].mode = "noopen"
        /\ g_deviceCount = 2
        /\ g_devices[0].hubIndex = 1

\* C8 (as amended): GetDeviceInfo(index, outInfo) returns 1 exactly when
\* 0 <= index < count of the most recent pass and outInfo is not NULL, and
\* then *outInfo is the record of that pass at index (never a zeroed one);
\* otherwise it returns 0 and *outInfo is not written.
C8_GetRecord ==
    obs.op = "info" =>
        LET inRange == 0 <= obs.index /\ obs.index < last.count IN
        /\ obs.ret = 1 <=> (inRange /\ ~obs.null)
        /\ obs.ret = 1 =>
              /\ obs.out = [written |-> TRUE, info |-> last.devices[obs.index]]
              /\ obs.out.info # ZeroInfo
        /\ obs.ret # 1 => (obs.ret = 0 /\ obs.out = Untouched)

\* C8 as stated: GetDeviceInfo succeeds if and only if the index is in range.
C8_Original ==
    obs.op = "info" =>
        (obs.ret = 1 <=> (0 <= obs.index /\ obs.index < last.count))

C8_Witness ==
    /\ obs.op = "info"
    /\ obs.ret = 1
    /\ obs.index = 1
    /\ obs.out.info.hubIndex = 1

\* C9: two passes in succession on the same hardware return the same value
\* and leave the same g_devices and g_deviceCount.
C9_Idempotent ==
    (prev.valid /\ last.valid) =>
        /\ prev.ret = last.ret
        /\ prev.count = last.count
        /\ prev.devices = last.devices

C9_Witness ==
    /\ prev.valid
    /\ last.valid
    /\ last.count = 1
    /\ last.devices[0].hubIndex = 1

\* The first n characters of a string.
Prefix(str, n) == IF str.len <= n THEN str ELSE [id |-> str.id, len |-> n]

\* The speed table of the specification.
SpeedCode(raw) == IF raw \in 0..3 THEN raw ELSE 0 - 1

\* The record the specification asks for the connected port q, but for its
\* description, with the device path given.
Expected(q, path) ==
    LET rep == ConnAt(hw.speedBase, q.hub, q.port, DeviceConnected) IN
    [hubIndex |-> q.hub,
     portNumber |-> q.port,
     isHub |-> IF rep.DeviceIsHub # 0 THEN 1 ELSE 0,
     vendorId |-> rep.idVendor,
     productId |-> rep.idProduct,
     speed |-> SpeedCode(rep.Speed),
     devicePath |-> path]

Undescribed(r) ==
    [hubIndex |-> r.hubIndex, portNumber |-> r.portNumber, isHub |-> r.isHub,
     vendorId |-> r.vendorId, productId |-> r.productId, speed |-> r.speed,
     devicePath |-> r.devicePath]

Increasing ==
    \A i, j \in Stored :
        i < j =>
            \/ g_devices[i].hubIndex < g_devices[j].hubIndex
            \/ /\ g_devices[i].hubIndex = g_devices[j].hubIndex
               /\ g_devices[i].portNumber < g_devices[j].portNumber

\* C10 (as amended): after a pass the i-th record is the i-th connected port
\* in traversal order, with that hub's index, that port's number, the hub
\* flag, the identifiers and the mapped speed of its connection answer, and
\* the first MAX_PATH_LEN - 1 characters of the hub's device path; the
\* records are strictly increasing in (hubIndex, portNumber).
C10_Records ==
    \A t \in threads :
        Completed(t) =>
            /\ g_deviceCount <= Len(ConnectedPorts)
            /\ \A i \in Stored :
                  Undescribed(g_devices[i])
                      = Expected(ConnectedPorts[i + 1],
                                 Prefix(PathAt(ConnectedPorts[i + 1].hub), MAX_PATH_LEN - 1))
            /\ Increasing

\* C10 as stated: the record carries the owning hub's device path.
C10_Original ==
    \A t \in threads :
        Completed(t) =>
            /\ g_deviceCount <= Len(ConnectedPorts)
            /\ \A i \in Stored :
                  Undescribed(g_devices[i])
                      = Expected(ConnectedPorts[i + 1], PathAt(ConnectedPorts[i + 1].hub))
            /\ Increasing

C10_Witness ==
    \E t \in threads :
        /\ Completed(t)
        /\ g_deviceCount = 2
        /\ g_devices[0].hubIndex = 0
        /\ g_devices[1].hubIndex = 1
        /\ g_devices[1].devicePath.len = MAX_PATH_LEN - 1
        /\ Len(AllPorts) > Len(ConnectedPorts)

\* The raw speed class the device at port 1 of hub 0 reports.
RawSpeed == ConnAt(hw.speedBase, 0, 1, DeviceConnected).Speed

\* C11: the speed of a record is 0 for UsbLowSpeed, 1 for UsbFullSpeed, 2 for
\* UsbHighSpeed, 3 for UsbSuperSpeed and -1 for every other raw speed class
\* (never a value of 0..3), and it is a function of the raw class alone.
C11_SpeedMapping ==
    \A t \in threads :
        (Completed(t) /\ hw \in SpeedHw) =>
            LET s == g_devices[0].speed IN
            /\ g_deviceCount = 1
            /\ RawSpeed = UsbLowSpeed => s = 0
            /\ RawSpeed = UsbFullSpeed => s = 1
            /\ RawSpeed = UsbHighSpeed => s = 2
            /\ RawSpeed = UsbSuperSpeed => s = 3
            /\ RawSpeed \notin {UsbLowSpeed, UsbFullSpeed, UsbHighSpeed, UsbSuperSpeed}
                  => (s = -1 /\ s \notin 0..3)
            /\ prev.valid => prev.devices[0].speed = s

C11_Witness ==
    \E t \in threads :
        /\ Completed(t)
        /\ hw \in SpeedHw
        /\ RawSpeed = UCHAR_MOD - 1
        /\ g_devices[0].speed = -1

\* The store is what one pass alone leaves on this hardware.
SerialOutcome ==
    /\ g_deviceCount = Min(MAX_DEVICES, Len(ConnectedPorts))
    /\ \A i \in Slots :
          IF i < Min(MAX_DEVICES, Len(ConnectedPorts))
          THEN Undescribed(g_devices[i])
                   = Expected(ConnectedPorts[i + 1],
                              Prefix(PathAt(ConnectedPorts[i + 1].hub), MAX_PATH_LEN - 1))
          ELSE g_devices[i] = ZeroInfo

\* C12: EnumerateUSBDevices takes no lock: a thread that is outside the
\* function can enter it in every state, whatever step of its own pass the
\* other thread is at, and its entry zeroes the shared count and array with
\* the records the other thread has appended so far. (The interleaving whose
\* outcome no pass alone produces is C12_Witness.)
C12_NotReentrant ==
    /\ [](\A t \in threads : pc[t] = "idle" => ENABLED Reset(t))
    /\ [][\A t \in threads :
            (pc[t] = "idle" /\ pc'[t] = "list")
                => (g_deviceCount' = 0 /\ g_devices' = ZeroDevices)]_vars

\* Both threads have returned from passes that ran concurrently and the
\* store is not the one a pass alone leaves.
C12_Witness ==
    /\ threads = Threads
    /\ \A t \in threads : Completed(t)
    /\ ~SerialOutcome

\* C13: a pass empties the store before its first operating-system call
\* (count 0, every slot zeroed); after a pass every record of the store was
\* appended by a port query of that pass and every slot past the count is
\* zeroed; after a pass that SetupDiGetClassDevs aborted the count is 0, every
\* slot is zeroed, GetDeviceCount returns 0 and every GetDeviceInfo returns 0
\* and writes nothing.
C13_ResetFirst ==
    \A t \in threads :
        /\ pc[t] = "list" =>
              (trace[t] = <<>> /\ g_deviceCount = 0 /\ g_devices = ZeroDevices)
        /\ Returned(t) =>
              /\ \A i \in Slots \ Stored : g_devices[i] = ZeroInfo
              /\ \A i \in Stored :
                    \E j \in 1..Len(trace[t]) :
                        /\ trace[t][j] = Event("port", g_devices[i].hubIndex,
                                               g_devices[i].portNumber, TRUE)
        /\ Aborted(t) =>
              /\ g_deviceCount = 0
              /\ g_devices = ZeroDevices
              /\ obs.op = "count" => obs.ret = 0
              /\ obs.op = "info" => (obs.ret = 0 /\ obs.out = Untouched)

C13_Witness ==
    \E t \in threads :
        /\ Aborted(t)
        /\ obs.op = "info"
        /\ obs.index = 0
        /\ ~obs.null
        /\ obs.ret = 0

\* C14: while a pass runs with g_deviceCount = MAX_DEVICES no step changes
\* g_devices or g_deviceCount; and a pass over MAX_DEVICES or more connected
\* ports returns MAX_DEVICES (not an error), keeps exactly the first
\* MAX_DEVICES connected ports in traversal order, and has still resolved
\* every listed hub, queried every port of every healthy hub, and closed
\* every hub it opened.
C14_Full ==
    /\ [][(g_deviceCount = MAX_DEVICES /\ \E t \in threads : pc[t] # "idle")
            => (g_devices' = g_devices /\ g_deviceCount' = g_deviceCount)]_vars
    /\ [](\A t \in threads :
            (Completed(t) /\ Len(ConnectedPorts) >= MAX_DEVICES) =>
                /\ ret[t] = MAX_DEVICES
                /\ g_deviceCount = MAX_DEVICES
                /\ \A i \in Slots :
                      /\ g_devices[i].hubIndex = ConnectedPorts[i + 1].hub
                      /\ g_devices[i].portNumber = ConnectedPorts[i + 1].port
                /\ Visited(t) = [j \in 1..Len(hw.hubs) |-> j - 1]
                /\ Queried(t) = AllPorts
                /\ \A k \in Listed :
                      Cardinality(At(t, "close", k - 1))
                          = IF hw.hubs[k].mode \in {"nonode", "ok"} THEN 1 ELSE 0
                /\ handles = {})

\* The store filled up at hub 0 and a connected port of hub 1 found no room.
C14_Witness ==
    \E t \in threads :
        /\ Completed(t)
        /\ Len(ConnectedPorts) > MAX_DEVICES
        /\ g_devices[MAX_DEVICES - 1].hubIndex = 0
        /\ ConnectedPorts[MAX_DEVICES + 1].hub = 1
        /\ At(t, "close", 1) # {}
        /\ ret[t] = MAX_DEVICES

\* C15: a step that is not the reset of an entered pass leaves every written
\* slot (index < g_deviceCount) as it is and does not lower the count; a
\* GetDeviceInfo or GetDeviceCount call, whatever it returns, changes neither
\* g_devices nor g_deviceCount; so while no pass runs the store is the one
\* the last pass returned with and every read reports from it.
C15_Immutable ==
    /\ [][(\A t \in threads : ~(pc[t] = "idle" /\ pc'[t] = "list"))
            => /\ g_deviceCount' >= g_deviceCount
               /\ \A i \in Stored : g_devices'[i] = g_devices[i]]_vars
    /\ [][(obs.op = "none" /\ obs'.op # "none")
            => (g_devices' = g_devices /\ g_deviceCount' = g_deviceCount)]_vars
    /\ []((last.valid /\ \A t \in threads : pc[t] = "idle") =>
            /\ g_devices = last.devices
            /\ g_deviceCount = last.count
            /\ obs.op = "count" => obs.ret = last.count
            /\ (obs.op = "info" /\ obs.ret = 1) => obs.out.info = last.devices[obs.index])

\* A failed read of a full store after a pass over two hubs.
C15_Witness ==
    \E t \in threads :
        /\ Completed(t)
        /\ g_deviceCount = MAX_DEVICES
        /\ g_devices[0].hubIndex # g_devices[MAX_DEVICES - 1].hubIndex
        /\ obs.op = "info"
        /\ obs.index = MAX_DEVICES
        /\ obs.ret = 0

\* The SPDRP_DEVICEDESC lookup of the hub at index i fails: the property
\* cannot be read, or does not fit the buffer.
LookupFails(i) ==
    \/ DescAt(i).len = 0
    \/ DescAt(i).len + 1 > HUB_DESC_LEN

\* C16: after a pass, each of the first MAX_DEVICES connected ports whose
\* hub's description lookup fails has its record all the same, at its place in
\* traversal order, with hubIndex, portNumber, hub flag, speed, vendor and
\* product id and device path as for any other port, and a description made
\* of an empty hub name and the port number ("Hub: , Port: N").
C16_NoDescription ==
    \A t \in threads :
        Completed(t) =>
            \A j \in 1..Min(MAX_DEVICES, Len(ConnectedPorts)) :
                LET q == ConnectedPorts[j] IN
                LookupFails(q.hub) =>
                    /\ j - 1 \in Stored
                    /\ Undescribed(g_devices[j - 1])
                          = Expected(q, Prefix(PathAt(q.hub), MAX_PATH_LEN - 1))
                    /\ g_devices[j - 1].deviceDesc
                          = [hub |-> EmptyStr, port |-> q.port,
                             len |-> 5 + 8 + Digits(q.port)]

\* A described record of hub 0 followed by a record of hub 1, whose
\* description cannot be read.
C16_Witness ==
    \E t \in threads :
        /\ Completed(t)
        /\ g_deviceCount = 2
        /\ g_devices[0].hubIndex = 0
        /\ g_devices[0].deviceDesc.hub # EmptyStr
        /\ g_devices[1].hubIndex = 1
        /\ LookupFails(1)
        /\ g_devices[1].deviceDesc.hub = EmptyStr
        /\ g_devices[1].deviceDesc.len = 14

\* The places of the trace of t where the listing is released.
Destroys(t) == {j \in 1..Len(trace[t]) : trace[t][j].op = "destroy"}

\* C17: a pass whose listing was initialized holds one device information
\* set from SetupDiGetClassDevs on and releases it exactly once, as its last
\* operating-system call: after the listing is exhausted, after every hub
\* close, with no hub handle open, and before the count is returned; a pass
\* that SetupDiGetClassDevs aborted acquires none and releases none.
C17_ListingReleased ==
    /\ Cardinality(infoSets) <= 1
    /\ \A t \in threads :
          /\ pc[t] \in {"enum", "detail", "open", "node", "port", "close", "destroy"} =>
                /\ infoSets = {deviceInfoSet[t]}
                /\ Destroys(t) = {}
                /\ ret[t] = 0
          /\ pc[t] \in {"idle", "list", "return"} => infoSets = {}
          /\ (pc[t] = "return" \/ Completed(t)) =>
                LET n == Len(trace[t]) IN
                /\ Destroys(t) = {n}
                /\ trace[t][n].ok
                /\ trace[t][n - 1] = Event("enum", Len(hw.hubs), 0, FALSE)
                /\ \A j \in 1..n : trace[t][j].op \in {"open", "close"} => j < n
                /\ Cardinality({j \in 1..n : trace[t][j].op = "list"}) = 1
                /\ handles = {}
          /\ Aborted(t) =>
                /\ Destroys(t) = {}
                /\ trace[t] = <<Event("list", -1, 0, FALSE)>>
                /\ deviceInfoSet[t] = INVALID_HANDLE_VALUE

\* The listing was released after the close of the last of two hubs.
C17_Witness ==
    \E t \in threads :
        /\ Completed(t)
        /\ Len(hw.hubs) = 2
        /\ Healthy(2)
        /\ LET n == Len(trace[t]) IN
           /\ trace[t][n].op = "destroy"
           /\ trace[t][n - 2] = Event("close", 1, 0, TRUE)

====
